---- MODULE Spec2Model ----
(***************************************************************************)
(* Model of the peer-review-scores pipeline.                               *)
(*                                                                         *)
(*   clean.py                      find_first_reviews and its stages       *)
(*   bias_revlen_to_acceptance.py  prep_data / label_acceptance            *)
(*   bias_revlen_to_phd.py         prep_data / create_phd_year_group       *)
(*                                                                         *)
(* Tables (pandas DataFrames) are sequences of records, so that row order  *)
(* is part of the state.  Strings that the code inspects or converts       *)
(* (score texts, names, year labels) are sequences of one-character        *)
(* strings.  Floating-point values are exact rationals <<num, den>> in     *)
(* lowest terms with den > 0; den = 0 encodes the non-finite values        *)
(* (<<0,0>> NaN, <<1,0>> +inf, <<-1,0>> -inf).  Rounding is not modelled.  *)
(* A nullable cell is <<>> (missing) or <<v>>.                             *)
(***************************************************************************)
EXTENDS Integers, Sequences, FiniteSets, TLC

VARIABLES pc, xlsx, all_reviews, members, combined_reviews, first_reviews,
          csv, arg, ret

vars == <<pc, xlsx, all_reviews, members, combined_reviews, first_reviews,
          csv, arg, ret>>

(***************************************************************************)
(* Bounds of the model.                                                    *)
(***************************************************************************)
MaxReviews == 3
MaxTextLen == 4
MaxReadRows == 2
MaxBiasRows == 3
MaxAccRows == 3
MaxPhdRows == 3

(***************************************************************************)
(* Generic helpers.                                                        *)
(***************************************************************************)
Abs(x) == IF x < 0 THEN -x ELSE x

Sign(x) == IF x < 0 THEN -1 ELSE IF x > 0 THEN 1 ELSE 0

RECURSIVE GCD(_, _)
GCD(a, b) == IF b = 0 THEN a ELSE GCD(b, a % b)

Range(s) == {s[i] : i \in 1..Len(s)}

SeqsUpTo(S, n) == UNION {[1..k -> S] : k \in 1..n}

SumOver(s, F(_)) ==
    LET f[i \in 0..Len(s)] == IF i = 0 THEN 0 ELSE f[i - 1] + F(s[i])
    IN  f[Len(s)]

Filter(s, Keep(_)) ==
    LET f[i \in 0..Len(s)] ==
            IF i = 0 THEN <<>>
            ELSE IF Keep(s[i]) THEN Append(f[i - 1], s[i]) ELSE f[i - 1]
    IN  f[Len(s)]

Map(s, F(_)) == [i \in 1..Len(s) |-> F(s[i])]

(***************************************************************************)
(* Floating-point values as exact rationals.                               *)
(***************************************************************************)
NaN == <<0, 0>>

Norm(n, d) ==
    IF d = 0 THEN <<Sign(n), 0>>
    ELSE LET g == GCD(Abs(n), Abs(d))
         IN  <<(Sign(d) * Sign(n)) * (Abs(n) \div g), Abs(d) \div g>>

FromInt(x) == <<x, 1>>

IsFinite(a) == a[2] # 0

IsNaN(a) == a = NaN

FNeg(a) == <<-a[1], a[2]>>

FAdd(a, b) ==
    IF IsNaN(a) \/ IsNaN(b) THEN NaN
    ELSE IF ~IsFinite(a) /\ ~IsFinite(b) THEN (IF a = b THEN a ELSE NaN)
    ELSE IF ~IsFinite(a) THEN a
    ELSE IF ~IsFinite(b) THEN b
    ELSE Norm(a[1] * b[2] + b[1] * a[2], a[2] * b[2])

FSub(a, b) == FAdd(a, FNeg(b))

FMul(a, b) == Norm(a[1] * b[1], a[2] * b[2])

FDiv(a, b) ==
    IF IsNaN(a) \/ IsNaN(b) THEN NaN
    ELSE IF ~IsFinite(b) THEN (IF IsFinite(a) THEN <<0, 1>> ELSE NaN)
    ELSE Norm(a[1] * b[2], a[2] * b[1])

FAbs(a) == <<Abs(a[1]), a[2]>>

(***************************************************************************)
(* Characters.                                                             *)
(***************************************************************************)
Digits == {"0", "1", "2", "3", "4", "5", "6", "7", "8", "9"}

DigitVal(c) ==
    CASE c = "0" -> 0 [] c = "1" -> 1 [] c = "2" -> 2 [] c = "3" -> 3
      [] c = "4" -> 4 [] c = "5" -> 5 [] c = "6" -> 6 [] c = "7" -> 7
      [] c = "8" -> 8 [] c = "9" -> 9

DigitChar(n) ==
    CASE n = 0 -> "0" [] n = 1 -> "1" [] n = 2 -> "2" [] n = 3 -> "3"
      [] n = 4 -> "4" [] n = 5 -> "5" [] n = 6 -> "6" [] n = 7 -> "7"
      [] n = 8 -> "8" [] n = 9 -> "9"

\* str.lower() on one character of the alphabet the names are drawn from
LowerChar(c) ==
    CASE c = "A" -> "a" [] c = "B" -> "b" [] c = "C" -> "c" [] c = "D" -> "d"
      [] c = "L" -> "l" [] c = "O" -> "o" [] c = "Y" -> "y" [] c = "I" -> "i"
      [] OTHER -> c

str_lower(s) == [i \in 1..Len(s) |-> LowerChar(s[i])]

\* int(token) for a token matching -?\d+
RECURSIVE digits_value(_)
digits_value(tok) ==
    IF tok = <<>> THEN 0
    ELSE 10 * digits_value(SubSeq(tok, 1, Len(tok) - 1)) + DigitVal(tok[Len(tok)])

int_of(tok) ==
    IF tok[1] = "-" THEN -digits_value(Tail(tok)) ELSE digits_value(tok)

\* str(n) for an integer n
RECURSIVE nat_str(_)
nat_str(n) ==
    IF n < 10 THEN <<DigitChar(n)>>
    ELSE Append(nat_str(n \div 10), DigitChar(n % 10))

str_of_int(n) == IF n < 0 THEN <<"-">> \o nat_str(-n) ELSE nat_str(n)

(***************************************************************************)
(* clean.py: listify_scores.  re.findall(r'\-?\d+', scores) scans left to  *)
(* right for non-overlapping, greedy matches of an optional minus sign     *)
(* followed by one or more digits.                                         *)
(***************************************************************************)
RECURSIVE digits_end(_, _)
digits_end(s, i) ==
    IF i <= Len(s) /\ s[i] \in Digits THEN digits_end(s, i + 1) ELSE i

RECURSIVE re_findall(_, _)
re_findall(s, i) ==
    IF i > Len(s) THEN <<>>
    ELSE LET st == IF s[i] = "-" THEN i + 1 ELSE i
             e  == digits_end(s, st)
         IN  IF e > st
             THEN <<SubSeq(s, i, e - 1)>> \o re_findall(s, e)
             ELSE re_findall(s, i + 1)

listify_scores(scores) == Map(re_findall(scores, 1), int_of)

(***************************************************************************)
(* pandas operations on tables.                                            *)
(***************************************************************************)
\* pd.merge(left, right, on=...), how='inner': left row order, and for one
\* left row its matching right rows in right order.
InnerJoin(left, right, Match(_, _), Combine(_, _)) ==
    LET matches(l) ==
            LET g[j \in 0..Len(right)] ==
                    IF j = 0 THEN <<>>
                    ELSE IF Match(l, right[j])
                         THEN Append(g[j - 1], Combine(l, right[j]))
                         ELSE g[j - 1]
            IN  g[Len(right)]
        f[i \in 0..Len(left)] ==
            IF i = 0 THEN <<>> ELSE f[i - 1] \o matches(left[i])
    IN  f[Len(left)]

\* A stable ascending sort: each row is placed after every row already
\* placed that is not greater than it.
StableSort(s, Less(_, _)) ==
    LET insert(sorted, x) ==
            LET after == {k \in 1..Len(sorted) : Less(x, sorted[k])}
                p == IF after = {} THEN Len(sorted) + 1
                     ELSE CHOOSE k \in after : \A k2 \in after : k <= k2
            IN  SubSeq(sorted, 1, p - 1) \o <<x>> \o SubSeq(sorted, p, Len(sorted))
        f[i \in 0..Len(s)] ==
            IF i = 0 THEN <<>> ELSE insert(f[i - 1], s[i])
    IN  f[Len(s)]

\* DataFrame.drop_duplicates(subset=...), keep='first'
drop_duplicates(s, Key(_)) ==
    LET f[i \in 0..Len(s)] ==
            IF i = 0 THEN <<>>
            ELSE IF \E j \in 1..(i - 1) : Key(s[j]) = Key(s[i])
                 THEN f[i - 1]
                 ELSE Append(f[i - 1], s[i])
    IN  f[Len(s)]

\* the group keys of a groupby, ascending
RECURSIVE SortedKeys(_)
SortedKeys(S) ==
    IF S = {} THEN <<>>
    ELSE LET m == CHOOSE x \in S : \A y \in S : x <= y
         IN  <<m>> \o SortedKeys(S \ {m})

(***************************************************************************)
(* clean.py                                                                *)
(***************************************************************************)
F_AUDIENCE == 3
F_OVERALL == 5
F_CONFIDENCE == 6
F_ALTERNATIVE == 7

\* the positions counted from 1 instead of 0: {1: 3, 2: 5, 3: 6, 4: 7}
field_id_of_position_from_one(k) ==
    CASE k = 1 -> <<F_AUDIENCE>>
      [] k = 2 -> <<F_OVERALL>>
      [] k = 3 -> <<F_CONFIDENCE>>
      [] k = 4 -> <<F_ALTERNATIVE>>
      [] OTHER -> <<>>

\* tmp['field_id'].map({0: 3, 1: 5, 2: 6, 3: 7}); any other position maps to
\* a missing value
field_id_of_position(k) ==
    CASE k = 0 -> <<F_AUDIENCE>>
      [] k = 1 -> <<F_OVERALL>>
      [] k = 2 -> <<F_CONFIDENCE>>
      [] k = 3 -> <<F_ALTERNATIVE>>
      [] OTHER -> <<>>

\* One row per review and per token of its scores text (stack() leaves out
\* the positions a shorter list does not have).
expand_scores(reviews) ==
    LET rows(r) ==
            LET toks == listify_scores(r.scores)
            IN  [k \in 1..Len(toks) |->
                    [review_id |-> r.review_id,
                     field_id  |-> field_id_of_position(k - 1),
                     score     |-> toks[k]]]
        f[i \in 0..Len(reviews)] ==
            IF i = 0 THEN <<>> ELSE f[i - 1] \o rows(reviews[i])
    IN  f[Len(reviews)]

overall_scores(tmp) == Filter(tmp, LAMBDA t : t.field_id = <<F_OVERALL>>)

read_all_reviews(sheet) ==
    LET renamed == Map(sheet, LAMBDA r :
                       [review_id       |-> r.review_id,
                        submission_id   |-> r.submission_id,
                        member_id       |-> r.member_id,
                        member_name     |-> str_lower(r.member_name),
                        review_datetime |-> <<r.date, r.time>>,
                        scores          |-> r.scores,
                        text            |-> r.text])
        scores == overall_scores(expand_scores(renamed))
    IN  InnerJoin(renamed, scores,
                  LAMBDA l, s : l.review_id = s.review_id,
                  LAMBDA l, s :
                       [review_id       |-> l.review_id,
                        submission_id   |-> l.submission_id,
                        member_id       |-> l.member_id,
                        member_name     |-> l.member_name,
                        review_datetime |-> l.review_datetime,
                        score           |-> s.score,
                        review_length   |-> Len(l.text)])

read_members(sheet) ==
    Map(sheet, LAMBDA m :
        [track       |-> m.track,
         phd_year    |-> m.phd_year,
         member_name |-> str_lower(m.first_name) \o <<" ">> \o str_lower(m.last_name)])

\* how='left' instead of the inner join: unmatched reviews stay, without
\* reviewer data
merge_on_member_name_left(reviews, mems) ==
    LET f[i \in 0..Len(reviews)] ==
            IF i = 0 THEN <<>>
            ELSE LET r == reviews[i]
                     hits == Filter(mems, LAMBDA m : r.member_name = m.member_name)
                 IN  IF hits = <<>>
                     THEN Append(f[i - 1], [track |-> "nan", phd_year |-> <<>>] @@ r)
                     ELSE f[i - 1] \o Map(hits, LAMBDA m :
                              [track |-> m.track, phd_year |-> m.phd_year] @@ r)
    IN  f[Len(reviews)]

merge_on_member_name(reviews, mems) ==
    InnerJoin(reviews, mems,
              LAMBDA r, m : r.member_name = m.member_name,
              LAMBDA r, m :
                   [review_id       |-> r.review_id,
                    submission_id   |-> r.submission_id,
                    member_id       |-> r.member_id,
                    member_name     |-> r.member_name,
                    review_datetime |-> r.review_datetime,
                    score           |-> r.score,
                    review_length   |-> r.review_length,
                    track           |-> m.track,
                    phd_year        |-> m.phd_year])

\* review_datetime is <<date, time>>: dates first, then times of day
datetime_less(a, b) == a[1] < b[1] \/ (a[1] = b[1] /\ a[2] < b[2])

sort_key_less(a, b) ==
    \/ a.member_id < b.member_id
    \/ /\ a.member_id = b.member_id
       /\ \/ a.submission_id < b.submission_id
          \/ /\ a.submission_id = b.submission_id
             /\ datetime_less(a.review_datetime, b.review_datetime)

\* by=['member_id', 'submission_id'] only: review_datetime forgotten
sort_values_no_datetime(rows) ==
    StableSort(rows, LAMBDA a, b :
        \/ a.member_id < b.member_id
        \/ a.member_id = b.member_id /\ a.submission_id < b.submission_id)

sort_values(rows) == StableSort(rows, sort_key_less)

combine_all_reviews(reviews, mems) == sort_values(merge_on_member_name(reviews, mems))

\* drop_duplicates() without subset: only rows equal in every column count
\* as duplicates
select_first_reviews_whole_row(combined) ==
    drop_duplicates(combined, LAMBDA r : r)

select_first_reviews(combined) ==
    drop_duplicates(combined, LAMBDA r : <<r.member_id, r.submission_id>>)

\* the deviation from the mean of all the reviews: score - mean
bias_formula_minus_mean(score, mean, count) == FSub(FromInt(score), mean)

\* a guard for the single review: 0 when count = 1
bias_formula_single_zero(score, mean, count) ==
    IF count = 1 THEN <<0, 1>>
    ELSE FSub(FromInt(score),
              FDiv(FSub(FMul(mean, FromInt(count)), FromInt(score)),
                   FromInt(count - 1)))

\* the leave-one-out sum divided by count instead of count - 1
bias_formula_div_by_count(score, mean, count) ==
    FSub(FromInt(score),
         FDiv(FSub(FMul(mean, FromInt(count)), FromInt(score)),
              FromInt(count)))

\* score - (mean * count - score) / (count - 1)
bias_formula(score, mean, count) ==
    FSub(FromInt(score),
         FDiv(FSub(FMul(mean, FromInt(count)), FromInt(score)),
              FromInt(count - 1)))

\* data: rows with at least review_id, submission_id, score
group_stats(data) ==
    LET keys == SortedKeys({r.submission_id : r \in Range(data)})
        grp(s) == Filter(data, LAMBDA r : r.submission_id = s)
    IN  Map(keys, LAMBDA s :
            [submission_id |-> s,
             mean  |-> FDiv(FromInt(SumOver(grp(s), LAMBDA r : r.score)),
                            FromInt(Len(grp(s)))),
             count |-> Len(grp(s))])

calculate_bias(data) ==
    LET stats == group_stats(data)
        data_with_mean ==
            InnerJoin(data, stats,
                      LAMBDA d, s : d.submission_id = s.submission_id,
                      LAMBDA d, s :
                          [review_id |-> d.review_id,
                           score     |-> d.score,
                           mean      |-> s.mean,
                           count     |-> s.count,
                           bias      |-> bias_formula(d.score, s.mean, s.count)])
    IN  InnerJoin(data, data_with_mean,
                  LAMBDA d, b : d.review_id = b.review_id,
                  LAMBDA d, b : [bias |-> b.bias] @@ d)

(***************************************************************************)
(* The workbook: the inputs of find_first_reviews.                          *)
(***************************************************************************)
SubmissionIds == {1, 2}

MemberIds == {1, 2}

\* the name each member signs reviews with, as typed in 'All Reviews'
NameOfMember(m) ==
    IF m = 1 THEN <<"A", "l", " ", "B", "o">>
    ELSE <<"C", "Y", " ", "D", "I">>

\* <<date, time>>: day of the month and minute of the day.  The later day
\* carries the earlier time of day.
Stamps == {<<1, 600>>, <<5, 540>>}

\* a 'scores' cell: integers written in decimal, separated by spaces
RECURSIVE render_scores(_)
render_scores(vals) ==
    IF Len(vals) = 1 THEN str_of_int(vals[1])
    ELSE str_of_int(vals[1]) \o <<" ">> \o render_scores(Tail(vals))

\* the 'scores' cell of the i-th review of the workbook: four criteria, the
\* overall score (-2, 0, 2, ...) unlike that of any other row
scores_cell(i) == render_scores(<<3, 2 * i - 4, 4, 1>>)

ReviewBody == <<"o", "k">>

ReviewCells ==
    [submission_id : SubmissionIds, member_id : MemberIds, stamp : Stamps]

\* review_id ('#') is the row's unique identifier
ReviewSheet(cells) ==
    [i \in 1..Len(cells) |->
        [review_id     |-> i,
         submission_id |-> cells[i].submission_id,
         member_id     |-> cells[i].member_id,
         member_name   |-> NameOfMember(cells[i].member_id),
         date          |-> cells[i].stamp[1],
         time          |-> cells[i].stamp[2],
         scores        |-> scores_cell(i),
         text          |-> ReviewBody]]

\* 'Members' rows: two spellings of member 1 (with different tracks), and
\* member 2
MemberAl ==
    [first_name |-> <<"A", "L">>, last_name |-> <<"b", "o">>,
     track |-> "T1", phd_year |-> <<2000>>]

MemberAlAgain ==
    [first_name |-> <<"a", "l">>, last_name |-> <<"B", "o">>,
     track |-> "T2", phd_year |-> <<>>]

MemberCy ==
    [first_name |-> <<"C", "y">>, last_name |-> <<"D", "i">>,
     track |-> "T2", phd_year |-> <<1990>>]

\* 'Members' sheets: one member only, both members, and member 1 listed
\* twice, in either order
MemberSheets ==
    { <<MemberAl>>, <<MemberCy>>,
      <<MemberAl, MemberCy>>, <<MemberCy, MemberAl>>,
      <<MemberAl, MemberAlAgain>>, <<MemberAlAgain, MemberAl>> }

Workbooks(n) ==
    {[reviews |-> ReviewSheet(cells), members |-> ms] :
        cells \in SeqsUpTo(ReviewCells, n),
        ms \in MemberSheets}

(***************************************************************************)
(* Specification of clean.py: one run of find_first_reviews on a workbook. *)
(***************************************************************************)
Init ==
    /\ pc = "start"
    /\ xlsx \in Workbooks(MaxReviews)
    /\ all_reviews = <<>>
    /\ members = <<>>
    /\ combined_reviews = <<>>
    /\ first_reviews = <<>>
    /\ csv = <<>>
    /\ arg = <<>>
    /\ ret = <<>>

\* calculate_bias run on the joined table, before the first reviews are
\* selected
find_first_reviews_bias_before_selection ==
    /\ pc = "start"
    /\ all_reviews' = read_all_reviews(xlsx.reviews)
    /\ members' = read_members(xlsx.members)
    /\ combined_reviews' = combine_all_reviews(all_reviews', members')
    /\ first_reviews' = select_first_reviews(combined_reviews')
    /\ csv' = select_first_reviews(calculate_bias(combined_reviews'))
    /\ pc' = "done"
    /\ UNCHANGED <<xlsx, arg, ret>>

find_first_reviews ==
    /\ pc = "start"
    /\ all_reviews' = read_all_reviews(xlsx.reviews)
    /\ members' = read_members(xlsx.members)
    /\ combined_reviews' = combine_all_reviews(all_reviews', members')
    /\ first_reviews' = select_first_reviews(combined_reviews')
    /\ csv' = calculate_bias(first_reviews')
    /\ pc' = "done"
    /\ UNCHANGED <<xlsx, arg, ret>>

Next == find_first_reviews

Spec == Init /\ [][Next]_vars

(***************************************************************************)
(* Properties of find_first_reviews (specification Spec).                  *)
(***************************************************************************)
Rows(t) == 1..Len(t)

same_pair(a, b) == a.member_id = b.member_id /\ a.submission_id = b.submission_id

\* the position of a review in the 'All Reviews' sheet
sheet_row(review_id) ==
    CHOOSE i \in Rows(xlsx.reviews) : xlsx.reviews[i].review_id = review_id

\* C2: the table returned by find_first_reviews holds at most one row per
\* (member_id, submission_id) pair.
C2_OneRowPerPair ==
    pc = "done" =>
        \A i, j \in Rows(csv) : same_pair(csv[i], csv[j]) => i = j

\* a run in which the join produced several rows for one pair, of different
\* reviews, and two pairs are left in the result
C2_Witness ==
    /\ pc = "done"
    /\ Len(csv) >= 2
    /\ \E i, j \in Rows(combined_reviews) :
          /\ same_pair(combined_reviews[i], combined_reviews[j])
          /\ combined_reviews[i].review_id # combined_reviews[j].review_id

\* C3: among the enriched reviews (the rows of combine_all_reviews) of one
\* (member_id, submission_id) pair, the review that find_first_reviews keeps
\* has the smallest review_datetime, and among those with that smallest
\* review_datetime it is the one that comes first in the sheet's row order.
C3_EarliestKeptTiesByRowOrder ==
    pc = "done" =>
        \A i \in Rows(csv) : \A j \in Rows(combined_reviews) :
            LET kept == csv[i]
                q    == combined_reviews[j]
            IN  same_pair(kept, q) =>
                  /\ ~datetime_less(q.review_datetime, kept.review_datetime)
                  /\ q.review_datetime = kept.review_datetime
                        => sheet_row(kept.review_id) <= sheet_row(q.review_id)

\* one pair with three reviews: the kept one is preceded in the sheet by a
\* later-dated review and followed by one of the same datetime
C3_Witness ==
    /\ pc = "done"
    /\ \E i \in Rows(csv) : \E j, k \in Rows(combined_reviews) :
          LET kept == csv[i]
              late == combined_reviews[j]
              tie  == combined_reviews[k]
          IN  /\ same_pair(kept, late) /\ same_pair(kept, tie)
              /\ datetime_less(kept.review_datetime, late.review_datetime)
              /\ sheet_row(late.review_id) < sheet_row(kept.review_id)
              /\ tie.review_datetime = kept.review_datetime
              /\ sheet_row(kept.review_id) < sheet_row(tie.review_id)

normalized_full_name(m) ==
    str_lower(m.first_name) \o <<" ">> \o str_lower(m.last_name)

has_reviewer(r) ==
    \E k \in Rows(xlsx.members) :
        str_lower(r.member_name) = normalized_full_name(xlsx.members[k])

\* C6: a review whose lower-cased member_name equals no reviewer's
\* lower-cased "first name, space, last name" is in neither the output of
\* combine_all_reviews nor the first-reviews table; every row of these
\* carries the track and phd_year of a reviewer with the review's
\* normalized name.
C6_InnerJoinOnNormalizedName ==
    pc = "done" =>
        /\ \A i \in Rows(xlsx.reviews) :
              ~has_reviewer(xlsx.reviews[i]) =>
                  /\ \A j \in Rows(combined_reviews) :
                        combined_reviews[j].review_id # xlsx.reviews[i].review_id
                  /\ \A j \in Rows(csv) :
                        csv[j].review_id # xlsx.reviews[i].review_id
        /\ \A t \in {combined_reviews, csv} : \A j \in Rows(t) :
              \E k \in Rows(xlsx.members) :
                  /\ t[j].member_name = normalized_full_name(xlsx.members[k])
                  /\ t[j].member_name =
                        str_lower(xlsx.reviews[sheet_row(t[j].review_id)].member_name)
                  /\ t[j].track = xlsx.members[k].track
                  /\ t[j].phd_year = xlsx.members[k].phd_year

\* a run with a review of a member who is on no 'Members' row, next to a
\* review that is matched through a differently capitalised name
C6_Witness ==
    /\ pc = "done"
    /\ \E i \in Rows(xlsx.reviews) : ~has_reviewer(xlsx.reviews[i])
    /\ \E j \in Rows(csv) :
          csv[j].member_name # xlsx.reviews[sheet_row(csv[j].review_id)].member_name

(***************************************************************************)
(* Specification SpecScores: listify_scores applied to one text.           *)
(***************************************************************************)
ScoreAlphabet == {"-", "1", "9", "a", " "}

ExampleText ==
    <<"A", "u", "d", "i", "e", "n", "c", "e", ":", " ", "3", " ", "O", "v",
      "e", "r", "a", "l", "l", ":", " ", "-", "2", " ", "C", "o", "n", "f",
      "i", "d", "e", "n", "c", "e", ":", " ", "4", " ", "A", "l", "t", "e",
      "r", "n", "a", "t", "i", "v", "e", ":", " ", "1", " ", "s", "o", "m",
      "e", " ", "f", "r", "e", "e", " ", "t", "e", "x", "t", " ", "9", "9">>

ScoreInputs(n) == SeqsUpTo(ScoreAlphabet, n) \cup {<<>>, ExampleText}

InitScores ==
    /\ pc = "listify_start"
    /\ arg \in ScoreInputs(MaxTextLen)
    /\ ret = <<>>
    /\ xlsx = <<>>
    /\ all_reviews = <<>>
    /\ members = <<>>
    /\ combined_reviews = <<>>
    /\ first_reviews = <<>>
    /\ csv = <<>>

call_listify_scores ==
    /\ pc = "listify_start"
    /\ ret' = listify_scores(arg)
    /\ pc' = "listify_done"
    /\ UNCHANGED <<xlsx, all_reviews, members, combined_reviews, first_reviews,
                   csv, arg>>

NextScores == call_listify_scores

SpecScores == InitScores /\ [][NextScores]_vars

\* C4: listify_scores returns exactly the four criterion scores and nothing
\* else, also when further digit runs follow the score segment: for
\* "Audience: 3 Overall: -2 Confidence: 4 Alternative: 1 some free text 99"
\* it returns exactly [3, -2, 4, 1].
C4_ExactlyFourScores ==
    (pc = "listify_done" /\ arg = ExampleText) => ret = <<3, -2, 4, 1>>

(***************************************************************************)
(* Specification SpecReadAll: read_all_reviews on an 'All Reviews' sheet   *)
(* whose 'scores' cells are integers written in decimal and separated by   *)
(* spaces.                                                                 *)
(***************************************************************************)
TokenValues == {-2, 7}

TokenCounts == 1..5

RenderedTexts ==
    {render_scores(vals) : vals \in UNION {[1..k -> TokenValues] : k \in TokenCounts}}

\* an 'All Reviews' sheet with the given 'scores' cells
ReadSheet(texts) ==
    [i \in 1..Len(texts) |->
        [review_id     |-> i,
         submission_id |-> 1,
         member_id     |-> 1,
         member_name   |-> NameOfMember(1),
         date          |-> 1,
         time          |-> 600,
         scores        |-> texts[i],
         text          |-> ReviewBody]]

InitReadAll ==
    /\ pc = "read_start"
    /\ xlsx \in {[reviews |-> ReadSheet(texts), members |-> <<MemberAl>>] :
                    texts \in SeqsUpTo(RenderedTexts, MaxReadRows)}
    /\ all_reviews = <<>>
    /\ members = <<>>
    /\ combined_reviews = <<>>
    /\ first_reviews = <<>>
    /\ csv = <<>>
    /\ arg = <<>>
    /\ ret = <<>>

call_read_all_reviews ==
    /\ pc = "read_start"
    /\ all_reviews' = read_all_reviews(xlsx.reviews)
    /\ pc' = "read_done"
    /\ UNCHANGED <<xlsx, members, combined_reviews, first_reviews, csv, arg, ret>>

NextReadAll == call_read_all_reviews

SpecReadAll == InitReadAll /\ [][NextReadAll]_vars

scores_text_of(review_id) == xlsx.reviews[sheet_row(review_id)].scores

\* C5: the score of every row produced by read_all_reviews is the integer
\* token at position 1 (the second match of an optional minus sign followed
\* by digits) of that review's scores text; the tokens at positions 0, 2
\* and 3 never become the score.
C5_ScoreIsSecondToken ==
    pc = "read_done" =>
        \A i \in Rows(all_reviews) :
            LET toks == listify_scores(scores_text_of(all_reviews[i].review_id))
            IN  Len(toks) >= 2 /\ all_reviews[i].score = toks[2]

\* a row whose text has four tokens, the second unlike the three others
C5_Witness ==
    /\ pc = "read_done"
    /\ \E i \in Rows(all_reviews) :
          LET toks == listify_scores(scores_text_of(all_reviews[i].review_id))
          IN  /\ Len(toks) = 4
              /\ toks[2] \notin {toks[1], toks[3], toks[4]}
              /\ all_reviews[i].score = toks[2]

(***************************************************************************)
(* Specification SpecBias: calculate_bias applied to one table.            *)
(***************************************************************************)
BiasScores == {-2, 3, 5, 7}

BiasCells == [submission_id : SubmissionIds, score : BiasScores]

BiasTables(n) ==
    {[i \in 1..Len(cells) |->
         [review_id |-> i, submission_id |-> cells[i].submission_id,
          score |-> cells[i].score]] :
        cells \in SeqsUpTo(BiasCells, n)}

InitBias ==
    /\ pc = "bias_start"
    /\ arg \in BiasTables(MaxBiasRows)
    /\ ret = <<>>
    /\ xlsx = <<>>
    /\ all_reviews = <<>>
    /\ members = <<>>
    /\ combined_reviews = <<>>
    /\ first_reviews = <<>>
    /\ csv = <<>>

call_calculate_bias ==
    /\ pc = "bias_start"
    /\ ret' = calculate_bias(arg)
    /\ pc' = "bias_done"
    /\ UNCHANGED <<xlsx, all_reviews, members, combined_reviews, first_reviews,
                   csv, arg>>

NextBias == call_calculate_bias

SpecBias == InitBias /\ [][NextBias]_vars

\* the rows of table t that review the submission of row r
reviews_of_submission(t, r) == {k \in Rows(t) : t[k].submission_id = r.submission_id}

other_reviews(t, r) ==
    {k \in reviews_of_submission(t, r) : t[k].review_id # r.review_id}

RECURSIVE SumScores(_, _)
SumScores(t, K) ==
    IF K = {} THEN 0
    ELSE LET k == CHOOSE x \in K : TRUE
         IN  t[k].score + SumScores(t, K \ {k})

RECURSIVE SumBias(_, _)
SumBias(t, K) ==
    IF K = {} THEN <<0, 1>>
    ELSE LET k == CHOOSE x \in K : TRUE
         IN  FAdd(t[k].bias, SumBias(t, K \ {k}))

C8_SingleReviewBiasNotFinite ==
    pc = "bias_done" =>
        \A i \in Rows(ret) :
            other_reviews(arg, ret[i]) = {} => ~IsFinite(ret[i].bias)

\* a table with a single-review submission (bias NaN) next to a submission
\* with two reviews (finite biases)
C8_Witness ==
    /\ pc = "bias_done"
    /\ \E i, j \in Rows(ret) :
          /\ other_reviews(arg, ret[i]) = {} /\ IsNaN(ret[i].bias)
          /\ other_reviews(arg, ret[j]) # {} /\ IsFinite(ret[j].bias)

label_acceptance(x) ==
    IF x.acceptance < 0 THEN "rejected"
    ELSE IF x.acceptance > 0 THEN "accepted"
    ELSE "mixed"

\* data['score'] / abs(data['score']): 1, -1, or NaN for a score of 0
norm_of_score(score) == FDiv(FromInt(score), FromInt(Abs(score)))

\* x.nunique(): the distinct values that are not NaN
nunique(values) == Cardinality({v \in values : ~IsNaN(v)})

\* the sum of the scores alone, without the (2 - nunique) factor
acceptance_value_sum_only(norms, scores_sum) == scores_sum

\* grp['norm'].transform(lambda x: 2 - x.nunique()) * grp['score'].transform(sum)
acceptance_value(norms, scores_sum) == (2 - nunique(norms)) * scores_sum

\* data: the rows of first_reviews.csv
prep_data_acceptance(data) ==
    LET grp(r) == Filter(data, LAMBDA q : q.submission_id = r.submission_id)
        norms(r) == {norm_of_score(q.score) : q \in Range(grp(r))}
        scores_sum(r) == SumOver(grp(r), LAMBDA q : q.score)
    IN  Map(data, LAMBDA r :
            [acceptance    |-> label_acceptance(
                                  [acceptance |-> acceptance_value(norms(r), scores_sum(r))]),
             bias          |-> r.bias,
             abs_bias      |-> FAbs(r.bias),
             review_length |-> r.review_length])

(***************************************************************************)
(* Specification SpecAcceptance: prep_data of bias_revlen_to_acceptance.py *)
(* on a first-reviews table (the output of calculate_bias).  The table has *)
(* at least one row.                                                       *)
(***************************************************************************)
AccScores == {-3, -2, -1, 0, 4, 6}

AccCells == [submission_id : SubmissionIds, score : AccScores]

AccTables(n) ==
    {calculate_bias(
        [i \in 1..Len(cells) |->
            [review_id |-> i, submission_id |-> cells[i].submission_id,
             score |-> cells[i].score, review_length |-> Len(ReviewBody)]]) :
        cells \in SeqsUpTo(AccCells, n)}

InitAcceptance ==
    /\ pc = "acceptance_start"
    /\ arg \in AccTables(MaxAccRows)
    /\ ret = <<>>
    /\ xlsx = <<>>
    /\ all_reviews = <<>>
    /\ members = <<>>
    /\ combined_reviews = <<>>
    /\ first_reviews = <<>>
    /\ csv = <<>>

call_prep_data_acceptance ==
    /\ pc = "acceptance_start"
    /\ ret' = prep_data_acceptance(arg)
    /\ pc' = "acceptance_done"
    /\ UNCHANGED <<xlsx, all_reviews, members, combined_reviews, first_reviews,
                   csv, arg>>

NextAcceptance == call_prep_data_acceptance

SpecAcceptance == InitAcceptance /\ [][NextAcceptance]_vars

\* the label the direct rule gives to a submission with nonzero scores
direct_label(t, K) ==
    IF (\E k \in K : t[k].score > 0) /\ (\E k \in K : t[k].score < 0) THEN "mixed"
    ELSE IF SumScores(t, K) > 0 THEN "accepted"
    ELSE "rejected"

\* C7: every review of a submission whose scores are all nonzero gets the
\* same label: 'mixed' if the submission has a positive and a negative
\* score, whatever the sum; otherwise 'accepted' if the sum of its scores is
\* > 0 and 'rejected' if it is < 0.
C7_LabelFollowsDirectRule ==
    pc = "acceptance_done" =>
        /\ Len(ret) = Len(arg)
        /\ \A i \in Rows(ret) :
              LET K == reviews_of_submission(arg, arg[i])
              IN  (\A k \in K : arg[k].score # 0) =>
                      ret[i].acceptance = direct_label(arg, K)

\* scores [4, -2] on one submission (sum 2 > 0, labelled mixed) next to a
\* submission labelled rejected
C7_Witness ==
    /\ pc = "acceptance_done"
    /\ Len(arg) = 3
    /\ <<arg[1].submission_id, arg[2].submission_id, arg[3].submission_id>> = <<1, 1, 2>>
    /\ <<arg[1].score, arg[2].score, arg[3].score>> = <<4, -2, -3>>
    /\ <<ret[1].acceptance, ret[2].acceptance, ret[3].acceptance>>
          = <<"mixed", "mixed", "rejected">>

(***************************************************************************)
(* bias_revlen_to_phd.py                                                   *)
(***************************************************************************)
notna(cell) == cell # <<>>

\* '<' where the code has '<=': 1990 gets its own label
create_phd_year_group_strict(row) ==
    LET y == row.phd_year[1]
    IN  [phd_year_group |->
            IF y < 1990 THEN <<"~", "1", "9", "9", "0">>
            ELSE IF y > 2017 THEN <<"2", "0", "1", "8", "~">>
            ELSE str_of_int(y)] @@ row

\* row: a row whose phd_year is not missing
create_phd_year_group(row) ==
    LET y == row.phd_year[1]
    IN  [phd_year_group |->
            IF y <= 1990 THEN <<"~", "1", "9", "9", "0">>
            ELSE IF y > 2017 THEN <<"2", "0", "1", "8", "~">>
            ELSE str_of_int(y)] @@ row

\* the orders sort_values(by='phd_year') may leave the rows in: ascending
\* phd_year; the default sort is not stable, so rows of the same phd_year
\* come in any order
sorted_by_phd_year(rows) ==
    {[i \in Rows(rows) |-> rows[p[i]]] :
        p \in {q \in [Rows(rows) -> Rows(rows)] :
                 /\ \A i, j \in Rows(rows) : q[i] = q[j] => i = j
                 /\ \A i, j \in Rows(rows) :
                       i < j => rows[q[i]].phd_year[1] <= rows[q[j]].phd_year[1]}}

with_phd_year(data) == Filter(data, LAMBDA r : notna(r.phd_year))

\* the tables prep_data may return; data has a row with a phd_year
prep_data_phd(data) ==
    LET grouped == Map(with_phd_year(data), create_phd_year_group)
    IN  {Map(sorted, LAMBDA r :
             [phd_year_group |-> r.phd_year_group,
              bias           |-> r.bias,
              abs_bias       |-> FAbs(r.bias),
              review_length  |-> r.review_length]) :
            sorted \in sorted_by_phd_year(grouped)}

(***************************************************************************)
(* Specification SpecPhd: prep_data of bias_revlen_to_phd.py on a          *)
(* first-reviews table.  When no row has a phd_year, DataFrame.apply       *)
(* returns the empty table without the phd_year_group column and the       *)
(* column selection raises KeyError.                                       *)
(***************************************************************************)
PhdYears == (1988..1992) \cup {2005} \cup (2015..2020)

PhdCells == {<<>>} \cup {<<y>> : y \in PhdYears}

PhdTables(n) ==
    {calculate_bias(
        [i \in 1..Len(cells) |->
            [review_id |-> i, submission_id |-> 1, score |-> i,
             phd_year |-> cells[i], review_length |-> Len(ReviewBody)]]) :
        cells \in SeqsUpTo(PhdCells, n)}

InitPhd ==
    /\ pc = "phd_start"
    /\ arg \in PhdTables(MaxPhdRows)
    /\ ret = <<>>
    /\ xlsx = <<>>
    /\ all_reviews = <<>>
    /\ members = <<>>
    /\ combined_reviews = <<>>
    /\ first_reviews = <<>>
    /\ csv = <<>>

call_prep_data_phd ==
    /\ pc = "phd_start"
    /\ with_phd_year(arg) # <<>>
    /\ ret' \in prep_data_phd(arg)
    /\ pc' = "phd_done"
    /\ UNCHANGED <<xlsx, all_reviews, members, combined_reviews, first_reviews,
                   csv, arg>>

prep_data_phd_raises ==
    /\ pc = "phd_start"
    /\ with_phd_year(arg) = <<>>
    /\ pc' = "phd_error"
    /\ UNCHANGED <<xlsx, all_reviews, members, combined_reviews, first_reviews,
                   csv, arg, ret>>

NextPhd == call_prep_data_phd \/ prep_data_phd_raises

SpecPhd == InitPhd /\ [][NextPhd]_vars

\* label is y written in decimal: digits only, no leading zero, value y
is_decimal_of(label, y) ==
    /\ label # <<>>
    /\ \A k \in Rows(label) : label[k] \in Digits
    /\ Len(label) > 1 => label[1] # "0"
    /\ digits_value(label) = y

is_bucket_of(label, y) ==
    IF y <= 1990 THEN label = <<"~", "1", "9", "9", "0">>
    ELSE IF y > 2017 THEN label = <<"2", "0", "1", "8", "~">>
    ELSE is_decimal_of(label, y)

\* C10: every row with a PhD year y gets exactly one bucket: '~1990' if
\* y <= 1990, '2018~' if y > 2017, otherwise y as a decimal string (1990 ->
\* '~1990', 1991 -> '1991', 2017 -> '2017', 2018 -> '2018~'); the rows
\* without phd_year are removed first, so every output row has a bucket.
C10_PhdYearBuckets ==
    /\ \A i \in Rows(arg) :
          (pc \in {"phd_start", "phd_done"} /\ notna(arg[i].phd_year)) =>
              LET y == arg[i].phd_year[1]
                  g == create_phd_year_group(arg[i]).phd_year_group
              IN  /\ is_bucket_of(g, y)
                  /\ y = 1990 => g = <<"~", "1", "9", "9", "0">>
                  /\ y = 1991 => g = <<"1", "9", "9", "1">>
                  /\ y = 2017 => g = <<"2", "0", "1", "7">>
                  /\ y = 2018 => g = <<"2", "0", "1", "8", "~">>
    /\ pc = "phd_done" =>
          LET kept == with_phd_year(arg)
          IN  /\ Len(ret) = Len(kept)
              /\ \E p \in [Rows(ret) -> Rows(kept)] :
                    /\ \A i, j \in Rows(ret) : p[i] = p[j] => i = j
                    /\ \A i \in Rows(ret) :
                          /\ ret[i].bias = kept[p[i]].bias
                          /\ is_bucket_of(ret[i].phd_year_group, kept[p[i]].phd_year[1])

\* a table with a row without phd_year, removed, and the years 1990 and
\* 1991, labelled '~1990' and '1991'
C10_Witness ==
    /\ pc = "phd_done"
    /\ Len(arg) = 3
    /\ <<arg[1].phd_year, arg[2].phd_year, arg[3].phd_year>> = << <<1991>>, <<>>, <<1990>> >>
    /\ Len(ret) = 2
    /\ ret[1].phd_year_group = <<"~", "1", "9", "9", "0">>
    /\ ret[2].phd_year_group = <<"1", "9", "9", "1">>

(***************************************************************************)
(* The order of the stages of find_first_reviews (specification Spec).     *)
(***************************************************************************)
\* the overall score written in the i-th row of 'All Reviews'
sheet_score(i) == listify_scores(xlsx.reviews[i].scores)[2]

\* the rows of 'All Reviews' that reach the joined table: a reviewer of that
\* name exists and the scores text has an overall score
enriched_rows ==
    {i \in Rows(xlsx.reviews) :
        /\ has_reviewer(xlsx.reviews[i])
        /\ Len(listify_scores(xlsx.reviews[i].scores)) >= 2}

sheet_stamp(i) == <<xlsx.reviews[i].date, xlsx.reviews[i].time>>

\* the First Reviews: of the enriched rows of one (member_id, submission_id)
\* pair, the earliest one, the first in the sheet among equally early ones
first_review_rows ==
    {i \in enriched_rows :
        \A j \in enriched_rows :
            (j # i /\ same_pair(xlsx.reviews[i], xlsx.reviews[j])) =>
                \/ datetime_less(sheet_stamp(i), sheet_stamp(j))
                \/ sheet_stamp(i) = sheet_stamp(j) /\ i < j}

RECURSIVE SumSheetScores(_)
SumSheetScores(K) ==
    IF K = {} THEN 0
    ELSE LET k == CHOOSE x \in K : TRUE
         IN  sheet_score(k) + SumSheetScores(K \ {k})

\* the other First Reviews of the submission of sheet row i
other_first_reviews(i) ==
    {j \in first_review_rows :
        /\ j # i
        /\ xlsx.reviews[j].submission_id = xlsx.reviews[i].submission_id}

\* C11: join, then first-review selection, then bias: the table returned
\* holds exactly the First Reviews, and the mean and count behind a review's
\* bias are taken over the First Reviews of its submission only, so that the
\* bias is the score minus the mean of the submission's other First Reviews
\* (NaN when there is none).  A later repeated review of the same reviewer
\* on the submission, and a review dropped by the join, are not counted and
\* change no bias.
C11_BiasOverFirstReviewsOnly ==
    pc = "done" =>
        /\ Len(csv) = Cardinality(first_review_rows)
        /\ {csv[k].review_id : k \in Rows(csv)}
              = {xlsx.reviews[i].review_id : i \in first_review_rows}
        /\ \A k \in Rows(csv) :
              LET i == sheet_row(csv[k].review_id)
                  others == other_first_reviews(i)
              IN  /\ csv[k].score = sheet_score(i)
                  /\ csv[k].bias =
                        IF others = {} THEN NaN
                        ELSE FSub(FromInt(sheet_score(i)),
                                  FDiv(FromInt(SumSheetScores(others)),
                                       FromInt(Cardinality(others))))

\* a submission with two First Reviews, of two reviewers, and a later
\* repeated review by one of them: the biases are those of the two First
\* Reviews alone
C11_Witness ==
    /\ pc = "done"
    /\ \E k \in Rows(csv) : \E j \in enriched_rows \ first_review_rows :
          LET i == sheet_row(csv[k].review_id)
          IN  /\ same_pair(xlsx.reviews[i], xlsx.reviews[j])
              /\ datetime_less(sheet_stamp(i), sheet_stamp(j))
              /\ Cardinality(other_first_reviews(i)) = 1
              /\ IsFinite(csv[k].bias)
              /\ csv[k].bias # <<0, 1>>

====
